---- MODULE Spec2Model ----
(***************************************************************************)
(* Model of the article pipeline of ZenianResearchBot (scraper/main.py and *)
(* the services it drives): the page loop of main(), the per-document      *)
(* pipeline process_single_article under the asyncio semaphore, the        *)
(* checkpoint and stats files, and the Pinecone index; and of the weekly    *)
(* research spark of the Telegram bot (Bot/query_bot.py).                  *)
(***************************************************************************)
EXTENDS Integers, Sequences, FiniteSets, TLC

\* Config.CONCURRENCY_LIMIT, the capacity of ArticleProcessor.semaphore.
CONCURRENCY_LIMIT == 2
\* Config.EMBEDDING_DIMENSION, the dimension of the Pinecone index.
EMBEDDING_DIMENSION == 384

\* stop_after_attempt(n) of the tenacity decorators of the stage functions.
SCRAPE_ATTEMPTS == 3
EXTRACT_ATTEMPTS == 3
SUMMARIZE_ATTEMPTS == 5
GENERATE_ATTEMPTS == 5
STORE_ATTEMPTS == 3

\* Largest number of links on the result page of a one-page site.
MaxPageSize == 3
\* Number of non-empty result pages of a site that is crawled over several runs.
MaxPages == 2
\* Largest number of links on a result page of such a site.
MaxLinks == 1
\* Largest number of links on a page of a site crawled in one run.
MaxBatch == 2
\* Number of times the process is started (first start plus restarts).
MaxRuns == 2
\* Number of distinct values of the truncated sha256 prefix.
HashSpace == 4

\* query_bot.py, line 234: 7 * 24 * 3600 seconds, counted in days.
SPARK_INTERVAL == 7
\* Number of chats that talk to the bot.
MaxChats == 2
\* Last day of the bot's clock.
MaxTime == 16

VARIABLES
    pageSize,               \* the site: number of links on each page
    settings,               \* Config: "complete", or "missing" a required setting
    failed_articles,        \* lines of Config.FAILED_ARTICLES_FILE
    run,                    \* how many times the process has been started
    main_pc,                \* position of main()
    start_page,             \* main(): start_page
    page_num,               \* main(): page_num
    article_global_index,   \* main(): article_global_index
    page_article_links,     \* main(): page_article_links
    task,                   \* the process_single_article tasks of the batch
    cancelling,             \* the gather of the batch has been cancelled
    semaphore,              \* value of ArticleProcessor.semaphore
    stats,                  \* ArticleProcessor.stats
    checkpoint,             \* content of Config.CHECKPOINT_FILE
    stats_file,             \* content of Config.STATS_FILE
    index,                  \* records of the Pinecone index
    last_completed,         \* last page whose batch has completed (page 0: none)
    handler_saved,          \* an except clause of main() wrote the checkpoint
    now,                    \* query_bot: time.time(), in days
    last_sent,              \* query_bot: the Pinecone record "last_sent", <<>> when absent
    chat_ids,               \* query_bot: chat_ids
    spark,                  \* query_bot: the running call of send_research_spark
    rounds                  \* query_bot: the last call that reached its sends

botVars == <<now, last_sent, chat_ids, spark, rounds>>

vars == <<botVars, pageSize, settings, failed_articles, run, main_pc, start_page, page_num, article_global_index,
          page_article_links, task, cancelling, semaphore, stats, checkpoint,
          stats_file, index, last_completed, handler_saved>>

StatKeys == {"total_processed", "successful", "failed", "scraping_failed",
             "summarization_failed", "embedding_failed", "pinecone_failed",
             "ollama_connection_failed"}

ZeroStats == [k \in StatKeys |-> 0]

\* The links of result page p, in the order the page fetch returns them.
Url(p, i) == (p - 1) * MaxPageSize + i

PageLinks(p) ==
    IF p \in DOMAIN pageSize THEN [i \in 1..pageSize[p] |-> Url(p, i)] ELSE <<>>

\* hashlib.sha256(url).hexdigest()[:8]: a many-to-one map of the locator.
UrlHash(url) == url % HashSpace

\* An identity made of the locator alone.
create_locator_id(idx, url) == <<0, UrlHash(url)>>

\* utils.create_unique_id: f"article_{idx}_{url_hash}".
create_unique_id(idx, url) == <<idx, UrlHash(url)>>

\* asyncio.Semaphore: acquire() proceeds only while the value is positive.
CanAcquireAlways(s) == TRUE

CanAcquire(s) == s > 0

\* asyncio.Semaphore.release() on leaving the `async with` block.
ReleaseLeak(s) == s

Release(s) == s + 1

\* asyncio.gather(*tasks, return_exceptions=True) returns when every task is done.
AnyFinished(t) == \E i \in DOMAIN t : t[i].pc = "done"

\* A gather that also returns as soon as one task has failed.
FinishedOrFailed(t) ==
    \/ \A i \in DOMAIN t : t[i].pc = "done"
    \/ \E i \in DOMAIN t : t[i].result = "False"

AllFinished(t) == \A i \in DOMAIN t : t[i].pc = "done"

\* The checkpoint file: absent, unparsable (a truncated write), or the record
\* json.dump({'page_num': ..., 'article_idx': ...}) of utils.save_checkpoint.
NoCheckpoint(kind) == [kind |-> kind, page_num |-> 0, article_idx |-> 0]

CheckpointRecord(p, a) == [kind |-> "ok", page_num |-> p, article_idx |-> a]

\* main(): start position read from the checkpoint file, (1, 1) when the file
\* is absent or cannot be parsed.
LoadStartNextPage(ck) ==
    IF ck.kind # "ok"
    THEN [page_num |-> 1, article_idx |-> 1]
    ELSE [page_num |-> ck.page_num + 1, article_idx |-> ck.article_idx]

LoadStart(ck) ==
    IF ck.kind # "ok"
    THEN [page_num |-> 1, article_idx |-> 1]
    ELSE [page_num |-> ck.page_num, article_idx |-> ck.article_idx]

\* utils.update_stats: existing_stats[key] += value for every counter.
AddStats(existing, d) == [k \in StatKeys |-> existing[k] + d[k]]

Bump(s, keys) == [k \in StatKeys |-> IF k \in keys THEN s[k] + 1 ELSE s[k]]

\* A store that keeps every record written to it.
UpsertAppend(ix, rec) == ix \cup {rec}

\* Pinecone upsert: the record replaces any record with the same id.
Upsert(ix, rec) == {v \in ix : v.id # rec.id} \cup {rec}

\* send_research_spark is not running: its locals do not exist.
IdleSpark == [pc |-> "idle", current_time |-> 0, raised |-> FALSE, todo |-> {}, attempts |-> <<>>]

\* The bot as the article pipeline sees it: not started.
BotIdle ==
    /\ now = SPARK_INTERVAL
    /\ last_sent = <<>>
    /\ chat_ids = {}
    /\ spark = IdleSpark
    /\ rounds = [start |-> 0, prev |-> 0, stamped |-> FALSE]

\* A freshly deployed process in front of a site: no checkpoint file, no stats
\* file, an empty index.
Fresh(sites) ==
    /\ pageSize \in sites
    /\ failed_articles = <<>>
    /\ run = 1
    /\ main_pc = "init"
    /\ start_page = 0
    /\ page_num = 0
    /\ article_global_index = 0
    /\ page_article_links = <<>>
    /\ task = <<>>
    /\ cancelling = FALSE
    /\ semaphore = CONCURRENCY_LIMIT
    /\ stats = ZeroStats
    /\ checkpoint = NoCheckpoint("absent")
    /\ stats_file = ZeroStats
    /\ index = {}
    /\ last_completed = [page |-> 0, next |-> 0]
    /\ handler_saved = FALSE

InitOn(sites) == BotIdle /\ Fresh(sites)

\* One page of up to MaxPageSize links.
Init == InitOn([1..1 -> 1..MaxPageSize]) /\ settings = "complete"

\* Up to MaxPages pages of up to MaxLinks links.
InitPaged == InitOn(UNION {[1..n -> 1..MaxLinks] : n \in 1..MaxPages}) /\ settings = "complete"

\* MaxPages pages of up to MaxBatch links.
InitPages == InitOn([1..MaxPages -> 1..MaxBatch]) /\ settings = "complete"

\* Two runs started side by side on the same index, each about to process the
\* same document under the same index number: `task` holds the pipeline of
\* either run.
InitRace ==
    /\ BotIdle
    /\ pageSize = <<1>>
    /\ settings = "complete"
    /\ failed_articles = <<>>
    /\ run = 1
    /\ main_pc = "gather"
    /\ start_page = 1
    /\ page_num = 1
    /\ \E idx \in 1..MaxPageSize, url \in 1..HashSpace :
        /\ article_global_index = idx
        /\ page_article_links = <<url>>
        /\ task = [i \in 1..2 |->
                     [idx |-> idx, url |-> url, pc |-> "waiting", len |-> 0,
                      summary |-> <<>>, attempt |-> 1, inner |-> 1, calls |-> 0,
                      result |-> "pending"]]
    /\ cancelling = FALSE
    /\ semaphore = CONCURRENCY_LIMIT
    /\ stats = ZeroStats
    /\ checkpoint = NoCheckpoint("absent")
    /\ stats_file = ZeroStats
    /\ index = {}
    /\ last_completed = [page |-> 0, next |-> 0]
    /\ handler_saved = FALSE

\* One page, with or without the required settings.
InitSettings == InitOn([1..1 -> 1..MaxPageSize]) /\ settings \in {"complete", "missing"}

driverVars == <<start_page, page_num, article_global_index, page_article_links>>
storeVars == <<checkpoint, stats_file, index>>
batchVars == <<task, cancelling, semaphore, stats>>
scraperVars == <<pageSize, settings, failed_articles, run, main_pc, driverVars, batchVars,
                 storeVars, last_completed, handler_saved>>

----------------------------------------------------------------------------
\* Config.validate, config.py lines 50-55: whether it raises ValueError.  The
\* function collects nothing in `errors` and has no raise statement.
validate(s) == FALSE

\* A main() whose initialize call stands inside the try block, so that a
\* failed start leaves through the finally block.
AfterInitializeInTry(ok) == IF ok THEN "start" ELSE "finally"

\* main(), lines 125-127: `if not await processor.initialize(): return`,
\* ahead of the try statement.
AfterInitialize(ok) == IF ok THEN "start" ELSE "done"

(* ArticleProcessor.initialize, lines 34-55, and main(), lines 125-127:
   validate, check_connection, ensure_models_available; when one of them
   fails main() returns before the try block, else it goes on to the
   checkpoint. *)
Initialize ==
    /\ main_pc = "init"
    /\ IF validate(settings)
       THEN main_pc' = AfterInitialize(FALSE) /\ stats' = stats
       ELSE \/ /\ main_pc' = AfterInitialize(FALSE)
               /\ stats' = Bump(stats, {"ollama_connection_failed"})
            \/ main_pc' = AfterInitialize(FALSE) /\ stats' = stats
            \/ main_pc' = AfterInitialize(TRUE) /\ stats' = stats
    /\ UNCHANGED <<botVars, pageSize, settings, failed_articles, run, driverVars, task, cancelling,
                   semaphore, storeVars, last_completed, handler_saved>>

(* main(), lines 129-142: read the checkpoint; line 146: page_num = start_page *)
LoadCheckpoint ==
    /\ main_pc = "start"
    /\ LET s == LoadStart(checkpoint) IN
        /\ start_page' = s.page_num
        /\ article_global_index' = s.article_idx
        /\ page_num' = s.page_num
    /\ last_completed' = [page |-> checkpoint.page_num, next |-> checkpoint.article_idx]
    /\ main_pc' = "fetch"
    /\ UNCHANGED <<botVars, pageSize, settings, failed_articles, run, page_article_links, batchVars, storeVars, handler_saved>>

\* scraper.get_article_links_from_search, lines 136-163: the links of the
\* page, or [] when launching the browser, loading the page or reading the
\* links raised (`except Exception`, lines 161-163).
get_article_links_from_search(p, raised) == IF raised THEN <<>> ELSE PageLinks(p)

\* A driver for which a failed page fetch is an error of the run.
AfterFetchFatal(links, raised) ==
    IF raised THEN "except" ELSE IF links = <<>> THEN "finally" ELSE "dispatch"

\* main(), lines 159-160: `if not page_article_links: break`, which leaves
\* the loop for the finally block; the driver cannot tell why the list is empty.
AfterFetch(links, raised) == IF links = <<>> THEN "finally" ELSE "dispatch"

(* main(), lines 157-160: the page fetch, which returns or fails inside
   get_article_links_from_search *)
FetchPageOn(raised) ==
    /\ main_pc = "fetch"
    /\ LET links == get_article_links_from_search(page_num, raised) IN
        /\ page_article_links' = links
        /\ main_pc' = AfterFetch(links, raised)
    /\ UNCHANGED <<botVars, pageSize, settings, failed_articles, run, start_page, page_num, article_global_index,
                   batchVars, storeVars, last_completed, handler_saved>>

FetchPage == \E raised \in BOOLEAN : FetchPageOn(raised)

(* process_articles_batch, lines 96-98: one task per link, indices from start_idx *)
ProcessBatch ==
    /\ main_pc = "dispatch"
    /\ task' = [i \in 1..Len(page_article_links) |->
                  [idx |-> article_global_index + i - 1,
                   url |-> page_article_links[i],
                   pc |-> "waiting", len |-> 0, summary |-> <<>>,
                   attempt |-> 1, inner |-> 1, calls |-> 0,
                   result |-> "pending"]]
    /\ main_pc' = "gather"
    /\ UNCHANGED <<botVars, pageSize, settings, failed_articles, run, driverVars, cancelling, semaphore, stats,
                   storeVars, last_completed, handler_saved>>

----------------------------------------------------------------------------
(* process_single_article, lines 57-93.  Every await is one step of a task. *)

InBatch(i) == main_pc = "gather" /\ ~cancelling /\ i \in DOMAIN task

\* The stages a task runs while it holds a permit.
StagePcs == {"scrape", "summarize", "sleep", "embed", "store", "upsert"}

\* The task moves on to its next await; the stage behind it starts with its
\* first attempt and no call made yet.
SetTask(i, pc, len) ==
    [task EXCEPT ![i] = [@ EXCEPT !.pc = pc, !.len = len,
                                  !.attempt = 1, !.inner = 1, !.calls = 0]]

\* The stage after each stage of process_single_article.
NextStage(pc) ==
    CASE pc = "waiting" -> "scrape"
      [] pc = "scrape" -> "summarize"
      [] pc = "summarize" -> "sleep"
      [] pc = "sleep" -> "embed"
      [] pc = "embed" -> "store"
      [] pc = "store" -> "upsert"
      [] OTHER -> "done"

\* A pipeline that counts the outcome but goes on to the next stage.
ReturnNoStop(i, result, keys, calls) ==
    /\ task' = IF result = "False" /\ NextStage(task[i].pc) # "done"
               THEN SetTask(i, NextStage(task[i].pc), EMBEDDING_DIMENSION)
               ELSE [task EXCEPT ![i] = [@ EXCEPT !.pc = "done", !.len = 0,
                                                  !.summary = <<>>, !.calls = calls,
                                                  !.result = result]]
    /\ stats' = Bump(stats, keys)
    /\ semaphore' = IF result = "False" /\ NextStage(task[i].pc) # "done"
                    THEN semaphore ELSE Release(semaphore)

\* `return` out of the `async with` block after `calls` calls of the stage's
\* service: the counters of the outcome are incremented and the permit is
\* released.
Return(i, result, keys, calls) ==
    /\ task' = [task EXCEPT ![i] = [@ EXCEPT !.pc = "done", !.len = 0, !.summary = <<>>,
                                             !.calls = calls, !.result = result]]
    /\ stats' = Bump(stats, keys)
    /\ semaphore' = Release(semaphore)

\* The tenacity decorators around the operation of a stage, outermost first:
\* scrape_single_article around extract_article_data, summarize_article
\* around _generate_text, store_article_embedding; create_embeddings has none.
RetryPolicies(pc) ==
    CASE pc = "scrape" -> <<SCRAPE_ATTEMPTS, EXTRACT_ATTEMPTS>>
      [] pc = "summarize" -> <<SUMMARIZE_ATTEMPTS, GENERATE_ATTEMPTS>>
      [] pc \in {"store", "upsert"} -> <<STORE_ATTEMPTS>>
      [] OTHER -> <<>>

\* stop_after_attempt of the n-th policy around a stage; a stage without such
\* a policy runs once.
MaxAttempts(pc, n) == IF n <= Len(RetryPolicies(pc)) THEN RetryPolicies(pc)[n] ELSE 1

\* Whether a failure of the stage's operation leaves the decorated function as
\* an exception.  Every decorated function catches Exception and returns a
\* failure value (None or {'success': False}).
RaisesAlways(pc) == TRUE

Raises(pc) == FALSE

\* A call of the stage's service has failed.  tenacity calls the decorated
\* function again only when it raised and attempts are left: first the inner
\* policy, then the outer one; otherwise the failure value reaches
\* process_single_article, which counts it and returns False.
OnFailure(i, keys) ==
    LET t == task[i] IN
    IF Raises(t.pc) /\ t.inner < MaxAttempts(t.pc, 2)
    THEN /\ task' = [task EXCEPT ![i] = [t EXCEPT !.inner = @ + 1, !.calls = @ + 1]]
         /\ UNCHANGED <<semaphore, stats>>
    ELSE IF Raises(t.pc) /\ t.attempt < MaxAttempts(t.pc, 1)
    THEN /\ task' = [task EXCEPT ![i] = [t EXCEPT !.attempt = @ + 1, !.inner = 1,
                                                  !.calls = @ + 1]]
         /\ UNCHANGED <<semaphore, stats>>
    ELSE Return(i, "False", keys, t.calls + 1)

(* line 58-60: `async with self.semaphore`, then total_processed += 1.  The
   tasks reach acquire() in list order and asyncio.Semaphore wakes its waiters
   first-in first-out. *)
Acquire(i) ==
    /\ InBatch(i)
    /\ task[i].pc = "waiting"
    /\ \A j \in 1..(i - 1) : task[j].pc # "waiting"
    /\ CanAcquire(semaphore)
    /\ semaphore' = semaphore - 1
    /\ stats' = Bump(stats, {"total_processed"})
    /\ task' = SetTask(i, "scrape", 0)
    /\ UNCHANGED <<botVars, pageSize, settings, failed_articles, run, main_pc, driverVars, cancelling, storeVars,
                   last_completed, handler_saved>>

\* utils.log_failed_article, lines 57-65: a line is appended to the failure
\* log; an error while writing is logged and swallowed.
log_failed_article(log, idx, url, reason) ==
    {Append(log, [idx |-> idx, url |-> url, reason |-> reason]), log}

(* lines 62-68: scrape_single_article returns {'success': bool, ...}; each of
   its failure paths (scraper.py, lines 103-115) calls log_failed_article *)
Scrape(i) ==
    /\ InBatch(i)
    /\ task[i].pc = "scrape"
    /\ \/ /\ task' = SetTask(i, "summarize", 0)
          /\ UNCHANGED <<semaphore, stats, failed_articles>>
       \/ /\ OnFailure(i, {"scraping_failed", "failed"})
          /\ failed_articles' \in
                log_failed_article(failed_articles, task[i].idx, task[i].url, "scrape")
    /\ UNCHANGED <<botVars, pageSize, settings, run, main_pc, driverVars, cancelling, storeVars,
                   last_completed, handler_saved>>

(* ollama_service._generate_text, lines 160-166: the stripped response text
   of a 200 answer.  A text is a sequence of tokens: the token "prefix" is
   one of the introductory phrases of lines 93-98, "w" any other words. *)
Responses == {<<>>, <<"prefix">>, <<"prefix", "w">>, <<"w">>}

\* summarize_article, lines 92-100: a leading introductory phrase is cut off.
StripPrefix(text) ==
    IF text # <<>> /\ Head(text) = "prefix" THEN Tail(text) ELSE text

(* lines 70-74: summarize_article returns None when no text was generated
   (`if not summary`, line 88), else a dict with the cleaned summary *)
Summarize(i) ==
    /\ InBatch(i)
    /\ task[i].pc = "summarize"
    /\ \/ \E response \in Responses :
            IF response = <<>>
            THEN Return(i, "False", {"summarization_failed", "failed"}, task[i].calls + 1)
            ELSE /\ task' = [SetTask(i, "sleep", 0) EXCEPT
                                ![i].summary = StripPrefix(response)]
                 /\ UNCHANGED <<semaphore, stats>>
       \/ OnFailure(i, {"summarization_failed", "failed"})
    /\ UNCHANGED <<botVars, pageSize, settings, failed_articles, run, main_pc, driverVars, cancelling, storeVars,
                   last_completed, handler_saved>>

(* line 76: await asyncio.sleep(Config.WAIT_BETWEEN_ARTICLES) *)
WaitBetweenArticles(i) ==
    /\ InBatch(i)
    /\ task[i].pc = "sleep"
    /\ task' = SetTask(i, "embed", 0)
    /\ UNCHANGED <<botVars, pageSize, settings, failed_articles, run, main_pc, driverVars, cancelling, semaphore, stats,
                   storeVars, last_completed, handler_saved>>

(* lines 78-82: create_embeddings (ollama_service, lines 115-143) returns
   None without calling the embedder when the summary is empty, else a vector
   (of any length) or None when the embedder failed *)
CreateEmbeddings(i) ==
    /\ InBatch(i)
    /\ task[i].pc = "embed"
    /\ IF task[i].summary = <<>>
       THEN Return(i, "False", {"embedding_failed", "failed"}, task[i].calls)
       ELSE \/ /\ \E n \in {EMBEDDING_DIMENSION, EMBEDDING_DIMENSION - 1} :
                    task' = [SetTask(i, "store", n) EXCEPT ![i].summary = <<>>]
               /\ UNCHANGED <<semaphore, stats>>
            \/ OnFailure(i, {"embedding_failed", "failed"})
    /\ UNCHANGED <<botVars, pageSize, settings, failed_articles, run, main_pc, driverVars, cancelling, storeVars,
                   last_completed, handler_saved>>

\* An existence check that never finds the id.
NeverExists(ix, unique_id, raised) == FALSE

\* An existence check that reports the id as present when its fetch raised.
ExistsOrRaised(ix, unique_id, raised) ==
    raised \/ \E v \in ix : v.id = unique_id

(* pinecone_client.check_article_exists, lines 38-48: whether the fetch
   returned a vector under the id; False when the fetch raised. *)
check_article_exists(ix, unique_id, raised) ==
    ~raised /\ \E v \in ix : v.id = unique_id

\* A gate that checks the dimension before it looks for the id.
StoreCheckDimensionFirst(i, raised) ==
    /\ InBatch(i)
    /\ task[i].pc = "store"
    /\ IF task[i].len # EMBEDDING_DIMENSION
       THEN Return(i, "False", {"pinecone_failed", "failed"}, task[i].calls)
       ELSE IF check_article_exists(index, create_unique_id(task[i].idx, task[i].url), raised)
       THEN Return(i, "True", {"successful"}, task[i].calls)
       ELSE task' = SetTask(i, "upsert", task[i].len) /\ UNCHANGED <<semaphore, stats>>
    /\ UNCHANGED <<botVars, pageSize, settings, failed_articles, run, main_pc, driverVars, cancelling, storeVars,
                   last_completed, handler_saved>>

(* store_article_embedding, lines 53-60 (lines 84-90 of main.py for the
   counters): existence check, whose fetch returns or raises, then the
   dimension check. *)
StoreCheckOn(i, raised) ==
    /\ InBatch(i)
    /\ task[i].pc = "store"
    /\ IF check_article_exists(index, create_unique_id(task[i].idx, task[i].url), raised)
       THEN Return(i, "True", {"successful"}, task[i].calls)
       ELSE IF task[i].len # EMBEDDING_DIMENSION
       THEN Return(i, "False", {"pinecone_failed", "failed"}, task[i].calls)
       ELSE task' = SetTask(i, "upsert", task[i].len) /\ UNCHANGED <<semaphore, stats>>
    /\ UNCHANGED <<botVars, pageSize, settings, failed_articles, run, main_pc, driverVars, cancelling, storeVars,
                   last_completed, handler_saved>>

StoreCheck(i) == \E raised \in BOOLEAN : StoreCheckOn(i, raised)

\* lines 62-71: the vector under its id with its metadata; the timestamp of
\* the summary (ollama_service.py, line 107) differs from pipeline to pipeline.
VectorData(i) ==
    [id |-> create_unique_id(task[i].idx, task[i].url), link |-> task[i].url,
     timestamp |-> <<run, i>>]

(* store_article_embedding, lines 62-78: the upsert succeeds or raises *)
StoreUpsert(i) ==
    /\ InBatch(i)
    /\ task[i].pc = "upsert"
    /\ \/ /\ index' = Upsert(index, VectorData(i))
          /\ Return(i, "True", {"successful"}, task[i].calls + 1)
       \/ /\ index' = index
          /\ OnFailure(i, {"pinecone_failed", "failed"})
    /\ UNCHANGED <<botVars, pageSize, settings, failed_articles, run, main_pc, driverVars, cancelling, checkpoint,
                   stats_file, last_completed, handler_saved>>

(* CancelledError thrown into a task at its await: a task inside the
   `async with` block releases its permit on the way out and increments no
   outcome counter; an upsert already handed to asyncio.to_thread may still
   reach the index. *)
CancelTask(i) ==
    /\ main_pc = "gather" /\ cancelling /\ i \in DOMAIN task
    /\ task[i].pc # "done"
    /\ task' = [task EXCEPT ![i] = [@ EXCEPT !.pc = "done", !.len = 0, !.summary = <<>>,
                                             !.result = "Cancelled"]]
    /\ semaphore' = IF task[i].pc \in StagePcs THEN Release(semaphore) ELSE semaphore
    /\ \E ix \in (IF task[i].pc = "upsert" THEN {index, Upsert(index, VectorData(i))}
                                           ELSE {index}) : index' = ix
    /\ UNCHANGED <<botVars, pageSize, settings, failed_articles, run, main_pc, driverVars, cancelling, stats, checkpoint,
                   stats_file, last_completed, handler_saved>>

----------------------------------------------------------------------------
(* The rest of the page loop of main(), lines 164-182. *)

\* utils.save_checkpoint, lines 122-135: the new file content and whether the
\* call raised.  A failed open leaves the file as it was, a failed write
\* leaves it truncated.
save_checkpoint(ck, p, a) ==
    {[file |-> CheckpointRecord(p, a), raised |-> FALSE],
     [file |-> ck, raised |-> TRUE],
     [file |-> NoCheckpoint("corrupt"), raised |-> TRUE]}

\* utils.update_stats, lines 67-99: read, add, write; any error is logged and
\* swallowed, leaving the file as it was.
update_stats(file, d) == {AddStats(file, d), file}

\* A driver that starts every page at the same index.
NextIndexSame(idx, links) == idx

\* line 168: article_global_index += len(page_article_links)
NextIndex(idx, links) == idx + Len(links)

(* line 98/164: the gather returns once every task of the batch is done *)
GatherReturn ==
    /\ main_pc = "gather" /\ ~cancelling
    /\ AllFinished(task)
    /\ main_pc' = "advance"
    /\ last_completed' = [page |-> page_num,
                          next |-> article_global_index + Len(page_article_links)]
    /\ UNCHANGED <<botVars, pageSize, settings, failed_articles, run, driverVars, batchVars, storeVars, handler_saved>>

(* line 168 *)
AdvanceIndex ==
    /\ main_pc = "advance"
    /\ article_global_index' = NextIndex(article_global_index, page_article_links)
    /\ main_pc' = "save"
    /\ UNCHANGED <<botVars, pageSize, settings, failed_articles, run, start_page, page_num, page_article_links,
                   batchVars, storeVars, last_completed, handler_saved>>

(* line 169: save_checkpoint(page_num, article_global_index); an error it
   raises is caught by `except Exception` of main() *)
SaveCheckpoint ==
    /\ main_pc = "save"
    /\ \E r \in save_checkpoint(checkpoint, page_num, article_global_index) :
        /\ checkpoint' = r.file
        /\ main_pc' = IF r.raised THEN "except" ELSE "update_stats"
    /\ UNCHANGED <<botVars, pageSize, settings, failed_articles, run, driverVars, batchVars, stats_file, index,
                   last_completed, handler_saved>>

(* lines 170-171: update_stats(processor.stats) *)
UpdateStats ==
    /\ main_pc = "update_stats"
    /\ stats_file' \in update_stats(stats_file, stats)
    /\ main_pc' = "index_stats"
    /\ UNCHANGED <<botVars, pageSize, settings, failed_articles, run, driverVars, batchVars, checkpoint, index,
                   last_completed, handler_saved>>

\* pinecone_client.get_index_stats, lines 80-87: the stats of the index, or
\* None when describe_index_stats raised.
get_index_stats(ix) ==
    {[ok |-> TRUE, total_vector_count |-> Cardinality(ix)],
     [ok |-> FALSE, total_vector_count |-> 0]}

\* A loop for which a failed stats call is an error.
AfterIndexStatsFatal(r) == IF r.ok THEN "sleep" ELSE "except"

\* lines 173-180: the result is only logged and the loop goes on to the sleep.
AfterIndexStats(r) == "sleep"

(* lines 173-178: get_index_stats, whose failure is only logged *)
GetIndexStats ==
    /\ main_pc = "index_stats"
    /\ \E r \in get_index_stats(index) : main_pc' = AfterIndexStats(r)
    /\ UNCHANGED <<botVars, pageSize, settings, failed_articles, run, driverVars, batchVars, storeVars,
                   last_completed, handler_saved>>

\* A loop that fetches the same page again.
SamePage(p) == p

\* line 182: page_num += 1
NextPage(p) == p + 1

(* lines 180-182: sleep, then page_num += 1 *)
WaitBetweenPages ==
    /\ main_pc = "sleep"
    /\ page_num' = NextPage(page_num)
    /\ main_pc' = "fetch"
    /\ UNCHANGED <<botVars, pageSize, settings, failed_articles, run, start_page, article_global_index, page_article_links,
                   batchVars, storeVars, last_completed, handler_saved>>

----------------------------------------------------------------------------
(* Interruption.  A SIGINT that arrives while main() runs synchronous code
   raises KeyboardInterrupt there (lines 184-187); one that arrives while
   main() is suspended at an await cancels the main task, and CancelledError
   passes both except clauses and reaches only the finally block. *)

SyncPcs == {"dispatch", "advance", "save", "update_stats"}

KeyboardInterrupt ==
    /\ main_pc \in SyncPcs
    /\ main_pc' = "except"
    /\ UNCHANGED <<botVars, pageSize, settings, failed_articles, run, driverVars, batchVars, storeVars,
                   last_completed, handler_saved>>

CancelMain ==
    /\ main_pc \in {"fetch", "index_stats", "sleep"}
    /\ main_pc' = "finally"
    /\ UNCHANGED <<botVars, pageSize, settings, failed_articles, run, driverVars, batchVars, storeVars,
                   last_completed, handler_saved>>

(* cancelling main() while it awaits the gather cancels the gather, which
   cancels every task that is not done *)
CancelGather ==
    /\ main_pc = "gather" /\ ~cancelling
    /\ cancelling' = TRUE
    /\ UNCHANGED <<botVars, pageSize, settings, failed_articles, run, main_pc, driverVars, task, semaphore, stats,
                   storeVars, last_completed, handler_saved>>

(* the cancelled gather raises CancelledError in main() once every task is done *)
GatherCancelled ==
    /\ main_pc = "gather" /\ cancelling
    /\ AllFinished(task)
    /\ cancelling' = FALSE
    /\ main_pc' = "finally"
    /\ UNCHANGED <<botVars, pageSize, settings, failed_articles, run, driverVars, task, semaphore, stats, storeVars,
                   last_completed, handler_saved>>

\* An except clause that swallows the exception and goes on with the loop.
AfterExceptResume == "fetch"

\* lines 187 and 191: `raise` at the end of both except clauses, which leaves
\* main() through the finally block.
AfterExcept == "finally"

(* lines 184-191: both except clauses call
   save_checkpoint(page_num, article_global_index) and re-raise *)
ExceptHandler ==
    /\ main_pc = "except"
    /\ \E r \in save_checkpoint(checkpoint, page_num, article_global_index) :
        /\ checkpoint' = r.file
        /\ handler_saved' = ~r.raised
    /\ main_pc' = AfterExcept
    /\ UNCHANGED <<botVars, pageSize, settings, failed_articles, run, driverVars, batchVars, stats_file, index,
                   last_completed>>

(* lines 192-208: update_stats(final_stats) with the counters of the run;
   main() returns or re-raises and the process ends, its memory gone *)
Finally ==
    /\ main_pc = "finally"
    /\ stats_file' \in update_stats(stats_file, stats)
    /\ main_pc' = "done"
    /\ start_page' = 0
    /\ page_num' = 0
    /\ article_global_index' = 0
    /\ page_article_links' = <<>>
    /\ task' = <<>>
    /\ stats' = ZeroStats
    /\ last_completed' = [page |-> 0, next |-> 0]
    /\ handler_saved' = FALSE
    /\ UNCHANGED <<botVars, pageSize, settings, failed_articles, run, cancelling, semaphore, checkpoint, index>>

(* the operator starts the process again: ArticleProcessor.__init__, lines 19-32 *)
Restart ==
    /\ main_pc = "done"
    /\ run < MaxRuns
    /\ run' = run + 1
    /\ main_pc' = "init"
    /\ stats' = ZeroStats
    /\ semaphore' = CONCURRENCY_LIMIT
    /\ UNCHANGED <<botVars, pageSize, settings, failed_articles, driverVars, task, cancelling, storeVars,
                   last_completed, handler_saved>>

NextRun ==
    \/ Initialize
    \/ LoadCheckpoint
    \/ FetchPage
    \/ ProcessBatch
    \/ \E i \in 1..MaxPageSize : Acquire(i)
    \/ \E i \in 1..MaxPageSize : Scrape(i)
    \/ \E i \in 1..MaxPageSize : Summarize(i)
    \/ \E i \in 1..MaxPageSize : WaitBetweenArticles(i)
    \/ \E i \in 1..MaxPageSize : CreateEmbeddings(i)
    \/ \E i \in 1..MaxPageSize : StoreCheck(i)
    \/ \E i \in 1..MaxPageSize : StoreUpsert(i)
    \/ \E i \in 1..MaxPageSize : CancelTask(i)
    \/ GatherReturn
    \/ AdvanceIndex
    \/ SaveCheckpoint
    \/ UpdateStats
    \/ GetIndexStats
    \/ WaitBetweenPages
    \/ KeyboardInterrupt
    \/ CancelMain
    \/ CancelGather
    \/ GatherCancelled
    \/ ExceptHandler
    \/ Finally

Next == NextRun \/ Restart

\* One run of the process on a one-page site.
RunSpec == Init /\ [][NextRun]_vars

\* Runs and restarts of the process on a site of several pages.
Spec == InitPaged /\ [][Next]_vars

\* Every task that can take a step eventually takes it (the event loop runs
\* every ready task and every stage call returns), and so does the gather.
TaskStep(i) ==
    \/ Acquire(i) \/ Scrape(i) \/ Summarize(i) \/ WaitBetweenArticles(i)
    \/ CreateEmbeddings(i) \/ StoreCheck(i) \/ StoreUpsert(i)

FairRunSpec ==
    /\ RunSpec
    /\ \A i \in 1..MaxPageSize : WF_vars(TaskStep(i))
    /\ WF_vars(GatherReturn)

\* A step of main() other than an interruption.
MainStep ==
    \/ Initialize \/ LoadCheckpoint \/ FetchPage \/ ProcessBatch \/ GatherReturn
    \/ AdvanceIndex \/ SaveCheckpoint \/ UpdateStats \/ GetIndexStats
    \/ WaitBetweenPages \/ GatherCancelled \/ ExceptHandler \/ Finally

\* The pipelines of the two runs, interleaved at their awaits.
RaceNext == \E i \in 1..2 : TaskStep(i)

RaceSpec == InitRace /\ [][RaceNext]_vars

\* One run on a site of several pages.
PagesSpec == InitPages /\ [][NextRun]_vars

\* One run with or without the required settings.
StartSpec == InitSettings /\ [][NextRun]_vars

\* One run in which main() and every task, cancelled or not, keep running.
FairLoopSpec ==
    /\ RunSpec
    /\ WF_vars(MainStep)
    /\ \A i \in 1..MaxPageSize : WF_vars(TaskStep(i) \/ CancelTask(i))

----------------------------------------------------------------------------
(* The research spark of the Telegram bot, query_bot.py.  The job queue calls
   send_research_spark; the handlers start and handle_query run for the
   messages of the chats.  The calls of send_research_spark up to its first
   send_message are synchronous, so a call runs from its start to the copy of
   chat_ids in one step. *)

Chats == 1..MaxChats

\* The bot has just been started (line 59: chat_ids = set()) on an index that
\* may hold a "last_sent" record of an earlier life of the process.
InitBot ==
    /\ Fresh({<<1>>})
    /\ settings = "complete"
    /\ now = SPARK_INTERVAL
    /\ last_sent \in {<<>>} \cup {<<t>> : t \in 1..SPARK_INTERVAL}
    /\ chat_ids = {}
    /\ spark = IdleSpark
    /\ rounds = [start |-> 0, prev |-> 0, stamped |-> FALSE]

\* get_last_timestamp, lines 210-218: the timestamp of the record, 0 when
\* there is no record or the fetch raised.
get_last_timestamp(rec, raised) == IF raised \/ rec = <<>> THEN 0 ELSE rec[1]

\* update_timestamp, lines 220-229: the upsert of the record; an error is
\* logged and swallowed and leaves the record as it was.
update_timestamp(rec, ts) ==
    {[rec |-> <<ts>>, raised |-> FALSE], [rec |-> rec, raised |-> TRUE]}

\* A gate that is always open.
NeverTooSoon(current_time, last_timestamp) == FALSE

\* line 234: current_time - last_timestamp < 7 * 24 * 3600
TooSoon(current_time, last_timestamp) == current_time - last_timestamp < SPARK_INTERVAL

\* A send loop that gives up at the first failed send.
AfterSendAbort(todo, ok) == IF ok /\ todo # {} THEN "send" ELSE "stamp"

\* lines 291-304: the loop goes on to the next chat of the copy whatever the
\* send did, and to update_timestamp after the last one.
AfterSend(todo, ok) == IF todo = {} THEN "stamp" ELSE "send"

(* send_research_spark, lines 232-291: the time is read, the timestamp is
   fetched; the call returns when it is too soon, or when there is no vector
   or no match (lines 241-248); else the message is built and the loop starts
   on a copy of chat_ids. *)
SendResearchSparkOn(raised) ==
    /\ spark.pc = "idle"
    /\ IF TooSoon(now, get_last_timestamp(last_sent, raised))
       THEN UNCHANGED <<spark, rounds>>
       ELSE \/ UNCHANGED <<spark, rounds>>
            \/ /\ spark' = [pc |-> AfterSend(chat_ids, TRUE), current_time |-> now,
                            raised |-> raised, todo |-> chat_ids, attempts |-> <<>>]
               /\ rounds' = [start |-> now, prev |-> rounds.start, stamped |-> FALSE]
    /\ UNCHANGED <<now, last_sent, chat_ids, scraperVars>>

SendResearchSpark == \E raised \in BOOLEAN : SendResearchSparkOn(raised)

(* lines 291-301: send_message to the next chat of the copy; a send that
   raises discards the chat from chat_ids *)
SendMessage(c) ==
    /\ spark.pc = "send"
    /\ c \in spark.todo
    /\ \E ok \in BOOLEAN :
        /\ spark' = [spark EXCEPT !.todo = @ \ {c},
                                  !.attempts = Append(@, <<c, ok>>),
                                  !.pc = AfterSend(spark.todo \ {c}, ok)]
        /\ chat_ids' = IF ok THEN chat_ids ELSE chat_ids \ {c}
    /\ UNCHANGED <<now, last_sent, rounds, scraperVars>>

(* line 304: update_timestamp(current_time); the call returns *)
UpdateTimestamp ==
    /\ spark.pc = "stamp"
    /\ \E r \in update_timestamp(last_sent, spark.current_time) :
        /\ last_sent' = r.rec
        /\ rounds' = [rounds EXCEPT !.stamped = ~r.raised]
    /\ spark' = IdleSpark
    /\ UNCHANGED <<now, chat_ids, scraperVars>>

(* start, lines 307-309: chat_ids.add(chat_id) *)
start(c) ==
    /\ chat_ids' = chat_ids \cup {c}
    /\ UNCHANGED <<now, last_sent, spark, rounds, scraperVars>>

(* handle_query, lines 315-317: chat_ids.add(chat_id) *)
handle_query(c) ==
    /\ chat_ids' = chat_ids \cup {c}
    /\ UNCHANGED <<now, last_sent, spark, rounds, scraperVars>>

\* A day passes.
Tick ==
    /\ now < MaxTime
    /\ now' = now + 1
    /\ UNCHANGED <<last_sent, chat_ids, spark, rounds, scraperVars>>

BotNext ==
    \/ SendResearchSpark
    \/ \E c \in Chats : SendMessage(c)
    \/ UpdateTimestamp
    \/ \E c \in Chats : start(c)
    \/ \E c \in Chats : handle_query(c)
    \/ Tick

\* The bot from its start.
BotSpec == InitBot /\ [][BotNext]_vars

----------------------------------------------------------------------------
(* Properties *)

InStages == {i \in DOMAIN task : task[i].pc \in StagePcs}

Outcomes(result) == {i \in DOMAIN task : task[i].result = result}

FailureSum(s) ==
    s.scraping_failed + s.summarization_failed + s.embedding_failed + s.pinecone_failed

\* C1: at most CONCURRENCY_LIMIT documents are inside the stages of
\* process_single_article at any time, also when the page has more links
\* than permits.
C1_ConcurrencyBound == Cardinality(InStages) <= CONCURRENCY_LIMIT

C1_Witness ==
    /\ Len(task) > CONCURRENCY_LIMIT
    /\ Cardinality(InStages) = CONCURRENCY_LIMIT
    /\ \E i \in DOMAIN task : task[i].pc = "waiting"

\* C2: every permit taken is given back exactly once (the free permits plus
\* the documents holding one always make CONCURRENCY_LIMIT), so all permits
\* are free whenever no batch is being gathered, whatever the outcomes were.
C2_PermitsConserved ==
    /\ semaphore + Cardinality(InStages) = CONCURRENCY_LIMIT
    /\ main_pc # "gather" => semaphore = CONCURRENCY_LIMIT

C2_Witness ==
    /\ main_pc = "finally"
    /\ Outcomes("True") # {}
    /\ Outcomes("False") # {}
    /\ Outcomes("Cancelled") # {}
    /\ semaphore = CONCURRENCY_LIMIT

\* C3: unless the run is interrupted, every dispatched document that waits
\* for a permit eventually produces its outcome, and the gather of the batch
\* eventually returns.
C3_NoStarvation ==
    /\ \A i \in 1..MaxPageSize :
        (main_pc = "gather" /\ i \in DOMAIN task /\ task[i].pc = "waiting")
            ~> (cancelling \/ (i \in DOMAIN task /\ task[i].result \in {"True", "False"}))
    /\ (main_pc = "gather") ~> (cancelling \/ main_pc = "advance")

C3_Witness ==
    /\ main_pc = "advance"
    /\ Len(task) > CONCURRENCY_LIMIT
    /\ \A i \in DOMAIN task : task[i].result \in {"True", "False"}

\* C4: in the page loop the checkpoint file is written only when every
\* document of the page has finished.
C4_CheckpointAfterBarrier ==
    [][(main_pc = "save" /\ checkpoint' # checkpoint) =>
          /\ Len(task) = Len(page_article_links)
          /\ \A i \in DOMAIN task : task[i].pc = "done" /\ task[i].result # "pending"]_vars

C4_Witness ==
    /\ main_pc = "update_stats"
    /\ checkpoint.kind = "ok"
    /\ Len(task) > CONCURRENCY_LIMIT
    /\ Outcomes("True") # {}
    /\ Outcomes("False") # {}

\* Number of links on pages 1..n of the site.
RECURSIVE LinksUpTo(_)
LinksUpTo(n) ==
    IF n = 0 THEN 0
    ELSE LinksUpTo(n - 1) + (IF n \in DOMAIN pageSize THEN pageSize[n] ELSE 0)

\* C5: once the checkpoint of page N has been written in the page loop, it
\* holds page number N and next index 1 + the number of documents on pages
\* 1..N, in a first run and in a run resumed from a checkpoint alike.
C5_CheckpointCountsPages ==
    main_pc = "update_stats" =>
        checkpoint = CheckpointRecord(page_num, 1 + LinksUpTo(page_num))

\* The same, for the first run of a deployment only.
C5_FirstRun ==
    (main_pc = "update_stats" /\ run = 1) =>
        checkpoint = CheckpointRecord(page_num, 1 + LinksUpTo(page_num))

\* C6: a document that is already stored is stored again under the same
\* identity or not at all when its page is fetched again after a restart:
\* the index never holds one locator under two identities.
C6_NoSecondUpsert ==
    \A v \in index : \A w \in index : v.link = w.link => v.id = w.id

\* C7: a checkpoint written by an except clause of main() names the last
\* page whose batch has completed and the index after that page's last
\* document.
C7_HandlerCheckpoint ==
    (main_pc = "finally" /\ handler_saved) =>
        /\ last_completed.page >= 1
        /\ checkpoint = CheckpointRecord(last_completed.page, last_completed.next)

\* C8: the first page fetch of a run is of page 1 with index 1 when there is
\* no readable checkpoint, and of the checkpoint's page_num with its
\* article_idx as first index when there is one.
C8_StartFromCheckpoint ==
    (main_pc = "fetch" /\ page_num = start_page) =>
        IF checkpoint.kind = "ok"
        THEN page_num = checkpoint.page_num /\ article_global_index = checkpoint.article_idx
        ELSE page_num = 1 /\ article_global_index = 1

C8_Witness ==
    /\ main_pc = "fetch" /\ page_num = start_page
    /\ run > 1
    /\ checkpoint.kind = "ok"
    /\ checkpoint.page_num = 2
    /\ page_num = 2
    /\ article_global_index = checkpoint.article_idx

C8_WitnessUnreadable ==
    /\ main_pc = "fetch" /\ page_num = start_page
    /\ run > 1
    /\ checkpoint.kind = "corrupt"
    /\ page_num = 1

\* C9: in the stats file the outcome counters add up to total_processed
\* after every flush.
C9_PersistedStatsBalanced ==
    stats_file.successful + FailureSum(stats_file) = stats_file.total_processed

\* C10: the flush after the batch of a page adds to the stats file exactly
\* that page's documents: k to total_processed, j to successful and k - j to
\* the failure counters, for the k documents of the page of which j succeeded.
C10_FlushAddsBatch ==
    [][(main_pc = "update_stats" /\ stats_file' # stats_file) =>
          /\ stats_file'.total_processed - stats_file.total_processed = Len(task)
          /\ stats_file'.successful - stats_file.successful
                = Cardinality(Outcomes("True"))
          /\ FailureSum(stats_file') - FailureSum(stats_file)
                = Cardinality(Outcomes("False"))]_vars

\* The same, for the first flush of a run only.
C10_FirstFlush ==
    [][(main_pc = "update_stats" /\ stats_file' # stats_file /\ page_num = start_page) =>
          /\ stats_file'.total_processed - stats_file.total_processed = Len(task)
          /\ stats_file'.successful - stats_file.successful
                = Cardinality(Outcomes("True"))
          /\ FailureSum(stats_file') - FailureSum(stats_file)
                = Cardinality(Outcomes("False"))]_vars

\* C11: the stats file accumulates without double counting: when the first
\* run of a deployment has ended and its final flush was written, every
\* persisted counter equals what that run counted (total_processed the
\* documents it processed, successful and each failure counter likewise).
C11_CountersAccumulate ==
    [][(run = 1 /\ main_pc = "finally" /\ stats_file' # stats_file) =>
          \A k \in StatKeys : stats_file'[k] = stats[k]]_vars

\* The (index, locator) of the task is stored in the index.
Stored(t) ==
    \E v \in index : v.id = create_unique_id(t.idx, t.url) /\ v.link = t.url

\* C12: a pipeline that reaches the persist stage for an (index, locator)
\* that an earlier pipeline has stored, and whose existence fetch returns,
\* ends with success straight from the existence check: no upsert is called
\* and the index keeps its single record of the document.
C12_Idempotent ==
    [][\A i \in 1..MaxPageSize :
          (i \in DOMAIN task /\ Stored(task[i]) /\ StoreCheckOn(i, FALSE)) =>
              /\ task'[i].result = "True"
              /\ task'[i].calls = 0
              /\ index' = index]_vars

C12_Witness ==
    /\ run > 1
    /\ \E i \in DOMAIN task :
          /\ task[i].result = "True"
          /\ task[i].calls = 0
          /\ Stored(task[i])
    /\ Cardinality(index) = 1
    /\ stats.successful = 1

\* C14: a task moves through its awaits in the order scrape, summarize,
\* sleep, embed, store, upsert; it enters the next stage only in a step that
\* counts no failure, a step that counts a failure ends the task, and a task
\* that has ended is not touched again.
C14_StageOrder ==
    [][\A i \in 1..MaxPageSize :
          (main_pc = "gather" /\ main_pc' = "gather" /\ i \in DOMAIN task
              /\ task'[i] # task[i]) =>
              /\ task[i].pc # "done"
              /\ \/ task'[i].pc = "done"
                 \/ /\ task'[i].pc = NextStage(task[i].pc)
                    /\ stats'.failed = stats.failed
                    /\ FailureSum(stats') = FailureSum(stats)
              /\ stats'.failed > stats.failed =>
                    task'[i].pc = "done" /\ task'[i].result = "False"]_vars

C14_Witness ==
    /\ main_pc = "advance"
    /\ Len(task) = 2
    /\ task[1].result = "False" /\ task[2].result = "True"
    /\ stats.summarization_failed = 1
    /\ stats.embedding_failed = 0 /\ stats.pinecone_failed = 0
    /\ stats.total_processed = 2

OutcomeCounters == {"successful", "scraping_failed", "summarization_failed",
                    "embedding_failed", "pinecone_failed"}

\* The counters a task that ends at stage t.pc with the given result may
\* increment: that of the stage it ended in, and that of the summarize stage
\* for an empty summary.
OutcomeOf(t, result) ==
    IF result = "True" THEN {"successful"}
    ELSE CASE t.pc = "scrape" -> {"scraping_failed"}
           [] t.pc = "summarize" -> {"summarization_failed"}
           [] t.pc = "embed" -> IF t.summary = <<>> THEN {"summarization_failed"}
                                                   ELSE {"embedding_failed"}
           [] t.pc = "store" -> {"embedding_failed", "pinecone_failed"}
           [] OTHER -> {"pinecone_failed"}

\* The step increments exactly one outcome counter, one of `counters`.
CountsOne(counters) ==
    \E c \in counters :
        \A k \in OutcomeCounters : stats'[k] = stats[k] + (IF k = c THEN 1 ELSE 0)

\* C15: a document that ends with an outcome increments exactly one of the
\* five outcome counters, by 1, and a failure increments the counter of the
\* failing stage: scraping_failed for a failed fetch, summarization_failed
\* for an empty summary, embedding_failed for a failed embedder,
\* pinecone_failed for a failed upsert.
C15_OneOutcome ==
    [][\A i \in 1..MaxPageSize :
          (i \in DOMAIN task /\ i \in DOMAIN task' /\ task[i].result = "pending"
              /\ task'[i].result \in {"True", "False"}) =>
              CountsOne(OutcomeOf(task[i], task'[i].result))]_vars

\* The same, for documents whose cleaned summary is not empty.
C15_WithSummary ==
    [][\A i \in 1..MaxPageSize :
          (i \in DOMAIN task /\ i \in DOMAIN task' /\ task[i].result = "pending"
              /\ task'[i].result \in {"True", "False"}
              /\ ~(task[i].pc = "embed" /\ task[i].summary = <<>>)) =>
              CountsOne(OutcomeOf(task[i], task'[i].result))]_vars

\* C16: a vector whose length is not EMBEDDING_DIMENSION ends the document
\* as a failure of the embed stage: embedding_failed is incremented,
\* pinecone_failed is not, and nothing is written to the index.
C16_DimensionIsEmbedFailure ==
    [][\A i \in 1..MaxPageSize :
          (i \in DOMAIN task /\ i \in DOMAIN task' /\ main_pc = "gather" /\ ~cancelling
              /\ task[i].pc = "store" /\ task[i].len # EMBEDDING_DIMENSION
              /\ task'[i] # task[i]) =>
              /\ task'[i].result = "False"
              /\ stats'.embedding_failed = stats.embedding_failed + 1
              /\ stats'.pinecone_failed = stats.pinecone_failed
              /\ index' = index]_vars

\* C17: a stage whose call fails while attempts are left is invoked again
\* (and ends with success when a later attempt succeeds): before its last
\* attempt a stage never ends the document as failed.
C17_RetriedToSuccess ==
    [][\A i \in 1..MaxPageSize :
          (i \in DOMAIN task /\ i \in DOMAIN task' /\ main_pc = "gather" /\ ~cancelling
              /\ task[i].pc \in {"scrape", "summarize", "upsert"}
              /\ task[i].attempt < MaxAttempts(task[i].pc, 1)
              /\ task'[i] # task[i]) =>
              task'[i].result # "False"]_vars

\* C18: a stage that ends the document as failed has been invoked exactly
\* maxAttempts times.
C18_ExhaustsAttempts ==
    [][\A i \in 1..MaxPageSize :
          (i \in DOMAIN task /\ i \in DOMAIN task'
              /\ task[i].pc \in {"scrape", "summarize"}
              /\ task'[i].result = "False") =>
              task'[i].calls = MaxAttempts(task[i].pc, 1)]_vars

C20_SiblingIndependence ==
    /\ main_pc \in {"gather", "advance"} => Len(task) = Len(page_article_links)
    /\ main_pc = "advance" =>
          \A i \in DOMAIN task : task[i].pc = "done" /\ task[i].result \in {"True", "False"}

C20_Witness ==
    /\ main_pc = "advance"
    /\ Len(task) = MaxPageSize
    /\ task[1].result = "False"
    /\ \A i \in 2..MaxPageSize : task[i].result = "True"

\* C21: the page loop has no page limit and ends normally only on an empty
\* page: after a non-empty page the next fetch is of the next page number, a
\* fetch that returns no links ends the loop, the loop is left otherwise only
\* by an interruption or an error, and once the fetch of the current page can
\* only return no links the run ends without another batch.
C21_LoopTermination ==
    /\ [][/\ (main_pc = "sleep" /\ main_pc' = "fetch") =>
               (page_num' = page_num + 1 /\ page_article_links # <<>>)
          /\ (main_pc = "fetch" /\ main_pc' = "dispatch") => page_article_links' # <<>>
          /\ (main_pc = "fetch" /\ page_article_links' = <<>>) => main_pc' = "finally"
          /\ main_pc \in SyncPcs => main_pc' \notin {"fetch", "finally", "done"}]_vars
    /\ (main_pc = "fetch" /\ PageLinks(page_num) = <<>>) ~> (main_pc = "done")
    /\ [][(main_pc = "fetch" /\ PageLinks(page_num) = <<>>) => task' = task \/ task' = <<>>]_vars

C21_Witness ==
    /\ main_pc = "finally"
    /\ page_num = 2
    /\ page_article_links = <<>>
    /\ Len(task) = MaxPageSize
    /\ checkpoint = CheckpointRecord(1, 1 + MaxPageSize)

\* C22: a failed write of the checkpoint file or of the stats file does not
\* abort the run: after a checkpoint write that failed the loop goes on to the
\* stats flush, and after a stats flush that wrote nothing to the next page.
C22_WriteFailureContinues ==
    [][/\ (main_pc = "save" /\ checkpoint.kind # "corrupt" /\ checkpoint'.kind = "corrupt")
            => main_pc' = "update_stats"
       /\ (main_pc = "update_stats" /\ main_pc' # "except" /\ stats_file' = stats_file)
            => main_pc' = "index_stats"]_vars

\* C23: with a required setting missing the run stops at startup: no page is
\* fetched and no document is dispatched.
C23_MissingSettingStops ==
    settings = "missing" => (main_pc \in {"init", "done"} /\ task = <<>>)

\* Entries of the failure log for the document of the task.
LogEntries(t) ==
    {n \in DOMAIN failed_articles :
        failed_articles[n].idx = t.idx /\ failed_articles[n].url = t.url}

\* C24: a document that ends as a failure, at whichever stage, gets one
\* entry with its index, its locator and a reason appended to the failure
\* log, and the log only grows.
C24_FailuresLogged ==
    [][/\ \A i \in 1..MaxPageSize :
            (i \in DOMAIN task /\ i \in DOMAIN task' /\ task[i].result = "pending"
                /\ task'[i].result = "False") =>
                /\ Len(failed_articles') = Len(failed_articles) + 1
                /\ failed_articles'[Len(failed_articles')].idx = task[i].idx
                /\ failed_articles'[Len(failed_articles')].url = task[i].url
       /\ Len(failed_articles') >= Len(failed_articles)
       /\ SubSeq(failed_articles', 1, Len(failed_articles)) = failed_articles]_vars

\* C25: once main() is in an except clause or the finally block, or the
\* gather has been cancelled, the run fetches no page, starts no batch and
\* lets no task enter a stage.
C25_NoPageAfterInterrupt ==
    [][(main_pc \in {"except", "finally"} \/ cancelling) =>
          /\ main_pc' \in {main_pc, "finally", "done"}
          /\ page_num' \in {page_num, 0}
          /\ \A i \in DOMAIN task' :
                i \in DOMAIN task /\ task'[i].pc \in {task[i].pc, "done"}]_vars

C25_Witness ==
    /\ main_pc = "finally"
    /\ handler_saved
    /\ page_num = 1
    /\ last_completed.page = 1
    /\ Len(task) = MaxPageSize

C27_IndicesContiguous ==
    /\ main_pc \in {"gather", "advance"} =>
          \A i \in DOMAIN task :
              task[i].idx = article_global_index + i - 1 /\ task[i].idx >= 1
    /\ (main_pc = "gather" /\ last_completed.page >= 1) =>
          task[1].idx = last_completed.next
    /\ (main_pc = "gather" /\ last_completed.page = 0) => task[1].idx = 1

C27_Witness ==
    /\ main_pc = "gather"
    /\ page_num = 2
    /\ Len(task) = MaxBatch
    /\ last_completed = [page |-> 1, next |-> 1 + MaxBatch]
    /\ task[MaxBatch].idx = 2 * MaxBatch

\* C28: when the pipelines of two runs race on one identity, the index never
\* holds two records under it, a pipeline whose vector has the right length
\* and that finds the record reports success, and a pipeline whose upsert
\* returns reports success and leaves exactly its record under the identity.
C28_RaceHarmless ==
    /\ [](\A v \in index : \A w \in index : v.id = w.id => v = w)
    /\ [][\A i \in 1..2 :
            /\ (task[i].pc = "store" /\ task[i].len = EMBEDDING_DIMENSION
                    /\ task'[i].pc = "done") => task'[i].result = "True"
            /\ (task[i].pc = "upsert" /\ task'[i].result = "True") =>
                    {v \in index' : v.id = VectorData(i).id} = {VectorData(i)}]_vars

C28_Witness ==
    /\ task[1].idx = task[2].idx /\ task[1].url = task[2].url
    /\ \A i \in 1..2 : task[i].result = "True" /\ task[i].calls = 1
    /\ Cardinality(index) = 1
    /\ stats.successful = 2

\* C29: the describe-stats call after a batch, failed or not, changes
\* neither the checkpoint nor the stats file nor a counter, and unless the
\* run is interrupted there the loop goes on to the sleep before the next
\* page.
C29_StatsCallNonFatal ==
    [][main_pc = "index_stats" =>
          /\ checkpoint' = checkpoint
          /\ stats_file' = stats_file
          /\ stats' = stats
          /\ main_pc' \in {"sleep", "finally"}
          /\ main_pc' = "finally" => CancelMain]_vars

C29_Witness ==
    /\ main_pc = "fetch"
    /\ page_num = 2
    /\ checkpoint = CheckpointRecord(1, 1 + MaxPageSize)
    /\ stats_file.total_processed = MaxPageSize

\* C30: while a batch is gathered, total_processed - successful - failed is
\* the number of documents holding a permit and failed is the sum of the four
\* failure counters; when the gather has returned total_processed equals
\* successful + failed.
C30_CountersBalanced ==
    /\ main_pc = "gather" =>
          /\ stats.total_processed - stats.successful - stats.failed
                = Cardinality(InStages)
          /\ stats.failed = FailureSum(stats)
    /\ main_pc = "advance" => stats.total_processed = stats.successful + stats.failed

\* The same, as long as the gather has not been cancelled.
C30_Uninterrupted ==
    /\ (main_pc = "gather" /\ ~cancelling) =>
          /\ stats.total_processed - stats.successful - stats.failed
                = Cardinality(InStages)
          /\ stats.failed = FailureSum(stats)
    /\ main_pc = "advance" => stats.total_processed = stats.successful + stats.failed

\* C31: a page fetch that fails is treated exactly like an empty page: the
\* driver gets an empty list and leaves the loop for the finally block as it
\* does for a page without links, no except clause runs, the checkpoint file
\* is not touched by the fetch or on the way out and names the last completed
\* page (if any), and the run ends.
C31_FetchErrorIsEmptyPage ==
    /\ [][FetchPageOn(TRUE) =>
            /\ page_article_links' = <<>>
            /\ main_pc' = "finally"
            /\ main_pc' = AfterFetch(<<>>, FALSE)
            /\ checkpoint' = checkpoint
            /\ task' = task]_vars
    /\ [][(main_pc = "finally" /\ page_article_links = <<>>) =>
            /\ main_pc' = "done"
            /\ checkpoint' = checkpoint]_vars
    /\ [](main_pc = "fetch" /\ last_completed.page >= 1 =>
            checkpoint = CheckpointRecord(last_completed.page, last_completed.next))

C31_Witness ==
    /\ main_pc = "finally"
    /\ page_num = 2
    /\ PageLinks(page_num) # <<>>
    /\ page_article_links = <<>>
    /\ ~handler_saved
    /\ checkpoint = CheckpointRecord(1, 1 + pageSize[1])

\* C32: the dedup gate fails open: when the fetch of the existence check
\* raises, check_article_exists reports the id as absent, also for an id that
\* is in the index, and a vector of the right length goes on to the upsert;
\* such a step counts no failure, and the document fails at the gate only
\* for a vector of the wrong length.
C32_GateFailsOpen ==
    [][\A i \in 1..MaxPageSize :
          (i \in DOMAIN task /\ StoreCheckOn(i, TRUE)) =>
              /\ ~check_article_exists(index, create_unique_id(task[i].idx, task[i].url), TRUE)
              /\ task[i].len = EMBEDDING_DIMENSION =>
                    /\ task'[i].pc = "upsert"
                    /\ task'[i].result = "pending"
                    /\ stats' = stats
              /\ task'[i].result # "True"
              /\ task'[i].result = "False" => task[i].len # EMBEDDING_DIMENSION]_vars

C32_Witness ==
    /\ run > 1
    /\ \E i \in DOMAIN task :
          /\ task[i].pc = "upsert"
          /\ \E v \in index :
                v.id = create_unique_id(task[i].idx, task[i].url) /\ v.timestamp[1] < run

\* C33: the existence check precedes the dimension check: for an id that is
\* in the index and whose existence fetch returns, the persist stage ends
\* with success and without an upsert for every vector, one of the wrong
\* length included; the gate fails a document for its vector's length only
\* when the id was not found.
C33_ExistenceBeforeDimension ==
    [][\A i \in 1..2 :
          /\ (Stored(task[i]) /\ StoreCheckOn(i, FALSE)) =>
                /\ task'[i].result = "True"
                /\ task'[i].calls = 0
                /\ index' = index
                /\ stats'.successful = stats.successful + 1
                /\ stats'.pinecone_failed = stats.pinecone_failed
          /\ (task[i].pc = "store" /\ task'[i].result = "False") =>
                /\ task[i].len # EMBEDDING_DIMENSION
                /\ \/ ~Stored(task[i])
                   \/ ~check_article_exists(index, create_unique_id(task[i].idx, task[i].url), FALSE)
                   \/ StoreCheckOn(i, TRUE)]_vars

\* A vector of the wrong length stands at the gate of an id that the other
\* pipeline has stored.
C33_Witness ==
    \E i \in 1..2, j \in 1..2 :
        /\ task[j].result = "True" /\ task[j].calls = 1
        /\ task[i].pc = "store"
        /\ task[i].len # EMBEDDING_DIMENSION
        /\ Stored(task[i])

\* The records of the index that hold the locator.
RecordsOf(url) == {v \in index : v.link = url}

\* The index holds the locator, but no record written under the task's index
\* number with the hash of its locator.
OnlyUnderOtherIndex(t) ==
    /\ \E v \in RecordsOf(t.url) : v.id[1] # t.idx
    /\ ~\E v \in index : v.id[1] = t.idx /\ v.id[2] = UrlHash(t.url)

\* C34: dedup is keyed on the pair (index, locator): a locator dispatched
\* under an index other than the one it was stored under gets another
\* identity, is not found by the existence check, goes on to the upsert with
\* a vector of the right length, and its upsert adds a second record of the
\* locator next to the first.
C34_KeyedOnIndexAndLocator ==
    [][\A i \in 1..MaxPageSize :
          /\ (i \in DOMAIN task /\ OnlyUnderOtherIndex(task[i]) /\ StoreCheck(i)) =>
                /\ \A v \in RecordsOf(task[i].url) :
                        v.id # create_unique_id(task[i].idx, task[i].url)
                /\ task'[i].result # "True"
                /\ task[i].len = EMBEDDING_DIMENSION => task'[i].pc = "upsert"
          /\ (i \in DOMAIN task /\ OnlyUnderOtherIndex(task[i]) /\ task[i].pc = "upsert"
                  /\ i \in DOMAIN task' /\ task'[i].result = "True") =>
                /\ index \subseteq index'
                /\ Cardinality(index') = Cardinality(index) + 1
                /\ Cardinality({v \in index' : v.link = task[i].url})
                      = Cardinality(RecordsOf(task[i].url)) + 1]_vars

C34_Witness ==
    /\ run > 1
    /\ \E i \in DOMAIN task :
          /\ task[i].result = "True" /\ task[i].calls = 1
          /\ Cardinality(RecordsOf(task[i].url)) = 2
          /\ \E v \in RecordsOf(task[i].url) : v.id[1] # task[i].idx

\* C35: when initialize fails, main() returns before the page loop: the step
\* out of the start writes neither the checkpoint nor the stats file nor the
\* index and dispatches nothing, a run that has counted a connection failure
\* is over, and ollama_connection_failed is 0 in the stats file at all times.
C35_FailedStartWritesNothing ==
    /\ [][main_pc = "init" =>
            /\ main_pc' \in {"start", "done"}
            /\ stats' # stats => main_pc' = "done"
            /\ checkpoint' = checkpoint
            /\ stats_file' = stats_file
            /\ index' = index
            /\ task' = task
            /\ page_num' = page_num /\ page_article_links' = page_article_links]_vars
    /\ [][main_pc = "done" => main_pc' = "init"]_vars
    /\ [](stats.ollama_connection_failed > 0 => main_pc = "done")
    /\ [](stats_file.ollama_connection_failed = 0)

C35_Witness ==
    /\ run > 1
    /\ main_pc = "done"
    /\ stats.ollama_connection_failed = 1
    /\ checkpoint.kind = "ok"
    /\ stats_file.total_processed > 0
    /\ stats_file.ollama_connection_failed = 0
    /\ task = <<>>

\* The stored timestamp is less than SPARK_INTERVAL old.
StoredTooRecent == last_sent # <<>> /\ now - last_sent[1] < SPARK_INTERVAL

\* The call stamps with the time it read at its start, and only the stamp
\* changes the record.
StampsStartTime ==
    [][/\ spark.pc = "stamp" =>
            /\ spark.current_time = rounds.start
            /\ last_sent' \in {last_sent, <<spark.current_time>>}
            /\ rounds'.stamped => last_sent' = <<spark.current_time>>
       /\ last_sent' # last_sent => spark.pc = "stamp"]_vars

\* A call that sends after a call whose stamp was written, and whose own
\* fetch returned, started at least SPARK_INTERVAL after that call.
SendsApart ==
    [][(spark.pc = "idle" /\ spark'.pc # "idle" /\ rounds.start > 0 /\ rounds.stamped
            /\ ~spark'.raised) =>
          /\ spark'.current_time = now
          /\ spark'.current_time - rounds.start >= SPARK_INTERVAL]_vars

Attempted == {spark.attempts[n][1] : n \in DOMAIN spark.attempts}

====
